---- MODULE Spec2Model ----
(***************************************************************************)
(* Model of src/src/authFlow.ts: the OAuth2 authorization-code helper and  *)
(* API proxy.  One Node.js process, one global accessToken, six routes.    *)
(* A handler runs without interruption from the moment it is entered (or   *)
(* resumed) up to its next await or its response, so every action below is *)
(* one such run-to-completion segment of a handler.                        *)
(*                                                                         *)
(* JavaScript values are tagged tuples: <<"null">>, <<"undefined">>,       *)
(* <<"string", s>>, <<"array">>, <<"object", access_token>>,               *)
(* <<"leagues", league_key>>, <<"doc">>.                                   *)
(***************************************************************************)
EXTENDS Integers, Sequences, FiniteSets, TLC

\* Number of requests that may be suspended on an outbound call at once.
MaxInFlight == 2

Slots == 1..MaxInFlight

----------------------------------------------------------------------------
\* JavaScript values

Null == <<"null">>
Undefined == <<"undefined">>
Str(s) == <<"string", s>>
Arr == <<"array">>
\* A parsed JSON object whose access_token property is at (Undefined: no
\* such property).
TokenObj(at) == <<"object", at>>
\* A parsed league-list document whose first league carries league_key key
\* (Undefined: the league object has no league_key property).
LeaguesDoc(key) == <<"leagues", key>>
\* A parsed JSON document without fantasy_content (any other shape).
OtherDoc == <<"doc">>

\* typeof v
TypeOf(v) ==
  CASE v[1] = "string" -> "string"
    [] v[1] = "undefined" -> "undefined"
    [] OTHER -> "object"

\* !v
Falsy(v) ==
  \/ v[1] = "null"
  \/ v[1] = "undefined"
  \/ v[1] = "string" /\ v[2] = ""

\* a || b
Or(a, b) == IF Falsy(a) THEN b ELSE a

\* `${v}` inside a template literal
TemplateStr(v) ==
  CASE v[1] = "string" -> v[2]
    [] v[1] = "null" -> "null"
    [] v[1] = "undefined" -> "undefined"
    [] OTHER -> "[object]"

----------------------------------------------------------------------------
\* Inputs the environment can supply

\* process.env.YAHOO_CLIENT_ID / YAHOO_CLIENT_SECRET: unset, empty, set
EnvValues == {Undefined, Str(""), Str("id1")}
SecretValues == {Undefined, Str(""), Str("sec1")}

\* req.query.code: missing, repeated (array), nested (object), string
Codes == {Undefined, Arr, TokenObj(Undefined), Str("abc")}

\* req.query.week: missing, empty, given
Weeks == {Undefined, Str(""), Str("3")}

\* The query parameters a route reads: only /nhl-matchups reads week
QueriesOf(route) == IF route = "/nhl-matchups" THEN Weeks ELSE {Undefined}

\* Outcomes of axios.post(tokenUrl, ...): a rejected promise (network error,
\* non-2xx status) or a 2xx response with parsed body data.
TokenBodies ==
  {Null, TokenObj(Undefined), TokenObj(Str("T1")), TokenObj(Str("T2"))}
PostResults ==
  {[ok |-> FALSE, err |-> e, data |-> Undefined] : e \in {"network", "status"}}
    \cup {[ok |-> TRUE, err |-> "", data |-> d] : d \in TokenBodies}

\* Outcomes of axios.get(url, ...)
RemoteBodies == {LeaguesDoc(Str("K1")), LeaguesDoc(Undefined), OtherDoc}
GetResults ==
  {[ok |-> FALSE, err |-> e, data |-> Undefined] : e \in {"network", "status"}}
    \cup {[ok |-> TRUE, err |-> "", data |-> d] : d \in RemoteBodies}

NoResult == [ok |-> FALSE, err |-> "none", data |-> Undefined]

----------------------------------------------------------------------------
\* Configuration and URLs

port == 3000
redirectUri == <<"https://localhost:", port, "/callback">>
authorizationUrl == "https://api.login.yahoo.com/oauth2/request_auth"
tokenUrl == "https://api.login.yahoo.com/oauth2/get_token"

DataRoutes == {"/test", "/nhl-leagues", "/nhl-matchups", "/nhl-teams"}
TwoStepRoutes == {"/nhl-matchups", "/nhl-teams"}

\* Mutant: the redirect_uri parameter is left out
authUrl_NoRedirectUri(clientId) ==
  <<authorizationUrl, "?client_id=", TemplateStr(clientId),
    "&response_type=code">>

authUrl(clientId) ==
  <<authorizationUrl, "?client_id=", TemplateStr(clientId),
    "&redirect_uri=", redirectUri, "&response_type=code">>

GamesUrl ==
  <<"https://fantasysports.yahooapis.com/fantasy/v2/users;use_login=1/games?format=json">>
LeaguesUrl ==
  <<"https://fantasysports.yahooapis.com/fantasy/v2/users;use_login=1/games;game_keys=nhl/leagues?format=json">>
ScoreboardUrl(leagueKey, week) ==
  <<"https://fantasysports.yahooapis.com/fantasy/v2/league/", TemplateStr(leagueKey),
    "/scoreboard;week=", TemplateStr(week), "?format=json">>
TeamsUrl(leagueKey) ==
  <<"https://fantasysports.yahooapis.com/fantasy/v2/league/", TemplateStr(leagueKey),
    "/teams?format=json">>

\* The URL of a route's first outbound call
FirstUrl(route) == IF route = "/test" THEN GamesUrl ELSE LeaguesUrl

\* The URL of the league-scoped second call of a two-step route
SecondUrl(route, leagueKey, week) ==
  IF route = "/nhl-matchups" THEN ScoreboardUrl(leagueKey, week)
  ELSE TeamsUrl(leagueKey)

\* The fixed text of a handler's catch block
FailureMessage(route) ==
  CASE route = "/callback" -> "Authentication failed"
    [] route = "/test" -> "Error making authenticated request"
    [] route = "/nhl-leagues" -> "Error fetching NHL league information"
    [] route = "/nhl-matchups" -> "Error fetching NHL matchup information"
    [] route = "/nhl-teams" -> "Error fetching NHL team information"

\* Mutant: the catch block sends the error it caught
FailureBody_LeaksError(route, err) == <<"text", err>>

\* res.status(500).send('...') of a catch block: the caught error is logged,
\* never sent
FailureBody(route, err) == <<"text", FailureMessage(route)>>

\* Mutant: the catch block answers 401 to the helper's "Not authenticated"
FailureStatus_401WhenUnauthenticated(err) ==
  IF err = "Not authenticated" THEN 401 ELSE 500

\* res.status(500) of a catch block, whatever the error
FailureStatus(err) == 500

NotAuthenticatedMessage == "Not authenticated. Please authenticate first."
InvalidCodeMessage == "Invalid authorization code"
SuccessMessage == "Authentication successful! You can close this window."

----------------------------------------------------------------------------
\* State

VARIABLES
  env,           \* process.env: [clientId, clientSecret]
  phase,         \* "boot", "listening" or "exited"
  accessToken,   \* the module-level accessToken
  reqs,          \* per request context: the frame of the suspended handler, or Idle
  ev,            \* what the last step put on the wire: an outbound call or a response
  lastExchange,  \* outcome of the most recently completed /callback request
  lastGood       \* access_token of the last well-formed 2xx exchange (Null: none yet)

vars == <<env, phase, accessToken, reqs, ev, lastExchange, lastGood>>

\* A handler's frame: its route, where it is suspended, the query parameter
\* it read (req.query.code, req.query.week), its local week and the
\* accessToken its presence check read.
Frame(route, pc, code, q, week, tok0) ==
  [route |-> route, pc |-> pc, code |-> code, q |-> q, week |-> week,
   tok0 |-> tok0]

Idle == Frame("", "idle", Undefined, Undefined, Undefined, Undefined)

\* Mutant: a handler that has answered stays suspended on its call
Finished_StillSuspended(r) == r

\* The request context once its handler has answered and returned
Finished(r) == Idle

NoEvent == [kind |-> "none"]

\* Mutant: requests are served one at a time (a blocking outbound call)
Free_OneAtATime(s) ==
  /\ \A u \in Slots : reqs[u].pc = "idle"
  /\ \A u \in Slots : s <= u

\* A new request takes the first free request context
Free(s) == reqs[s].pc = "idle" /\ \A u \in Slots : u < s => reqs[u].pc # "idle"

\* Number of outbound calls the request of frame r has issued
CallsOf(r) == IF r.pc = "await2" THEN 2 ELSE IF r.pc = "idle" THEN 0 ELSE 1

\* res.status(status).send(body) by the handler of frame r.  upstream is the
\* outbound result whose arrival resumed the handler (NoResult when it
\* answered without awaiting), err the error its catch block logged.
Response(s, r, status, body, upstream, err) ==
  [kind |-> "response", slot |-> s, route |-> r.route, code |-> r.code,
   week |-> r.week, tok0 |-> r.tok0, calls |-> CallsOf(r),
   status |-> status, body |-> body, upstream |-> upstream, err |-> err]

\* res.send(msg)
Text(msg) == <<"text", msg>>
\* res.json(data)
Json(data) == <<"json", data>>
\* res.redirect(url)
Redirect(url) == <<"redirect", url>>

----------------------------------------------------------------------------
\* Startup (lines 17-25, 179)

\* Mutant: && in place of ||
CredentialsMissing_BothOnly(e) == Falsy(e.clientId) /\ Falsy(e.clientSecret)

\* !clientId || !clientSecret (line 22)
CredentialsMissing(e) == Falsy(e.clientId) \/ Falsy(e.clientSecret)

Init ==
  /\ env \in [clientId : EnvValues, clientSecret : SecretValues]
  /\ phase = "boot"
  /\ accessToken = Null
  /\ reqs = [s \in Slots |-> Idle]
  /\ ev = NoEvent
  /\ lastExchange = "none"
  /\ lastGood = Null

\* Module top level: the credential check, then listen().
Startup ==
  /\ phase = "boot"
  /\ phase' = IF CredentialsMissing(env) THEN "exited" ELSE "listening"
  /\ ev' = IF CredentialsMissing(env) THEN [kind |-> "exit", code |-> 1]
           ELSE [kind |-> "listen", port |-> port]
  /\ UNCHANGED <<env, accessToken, reqs, lastExchange, lastGood>>

----------------------------------------------------------------------------
\* GET /auth (lines 35-38)

Auth(s) ==
  /\ phase = "listening"
  /\ Free(s)
  /\ ev' = Response(s, Frame("/auth", "idle", Undefined, Undefined, Undefined,
                                 Undefined),
                    302, Redirect(authUrl(env.clientId)), NoResult, "")
  /\ UNCHANGED <<env, phase, accessToken, reqs, lastExchange, lastGood>>

----------------------------------------------------------------------------
\* GET /callback (lines 41-68)

\* Mutant: only a missing code is rejected (code !== undefined)
IsStringCode_PresentOnly(code) == code # Undefined

\* typeof code === 'string' (line 44, negated)
IsStringCode(code) == TypeOf(code) = "string"

\* qs.stringify({code, redirect_uri, grant_type}) (lines 51-54)
TokenRequestBody(code) ==
  <<"code=", TemplateStr(code), "&redirect_uri=", redirectUri,
    "&grant_type=", "authorization_code">>

\* `Basic ${Buffer.from(`${clientId}:${clientSecret}`).toString('base64')}`
BasicAuth(e) ==
  <<"Basic", <<"base64", TemplateStr(e.clientId), ":", TemplateStr(e.clientSecret)>>>>

\* Whether the try block of lines 49-63 throws: axios.post rejects (network
\* error, non-2xx), or data.access_token is read from a null body.
ExchangeThrows(res) == ~res.ok \/ res.data = Null

\* data.access_token (line 62): the property, Undefined when there is none
access_token(data) == data[2]

\* Mutant: the assignment of line 62 is missing
TokenAfterExchange_NeverStored(tok, res) == tok

\* Mutant: the catch block resets the token
TokenAfterExchange_ClearedOnFailure(tok, res) ==
  IF ExchangeThrows(res) THEN Null ELSE access_token(res.data)

\* accessToken after the try/catch of lines 49-67
TokenAfterExchange(tok, res) ==
  IF ExchangeThrows(res) THEN tok ELSE access_token(res.data)

\* The provider answered 2xx with a body carrying an access_token string
WellFormed(res) ==
  /\ res.ok
  /\ res.data[1] = "object"
  /\ res.data[2][1] = "string"

\* The handler up to its await (400, or the POST issued)
Callback(s, code) ==
  /\ phase = "listening"
  /\ Free(s)
  /\ LET r == Frame("/callback", "idle", code, Undefined, Undefined, Undefined) IN
     IF ~IsStringCode(code)
       THEN /\ ev' = Response(s, r, 400, Text(InvalidCodeMessage), NoResult, "")
            /\ lastExchange' = "other"
            /\ UNCHANGED reqs
       ELSE /\ ev' = [kind |-> "POST", slot |-> s, route |-> "/callback",
                      code |-> code, url |-> tokenUrl,
                      body |-> TokenRequestBody(code), auth |-> BasicAuth(env)]
            /\ reqs' = [reqs EXCEPT ![s] = [r EXCEPT !.pc = "awaitPost"]]
            /\ UNCHANGED lastExchange
  /\ UNCHANGED <<env, phase, accessToken, lastGood>>

\* The handler from the settling of axios.post to its response
CallbackResume(s, res) ==
  /\ reqs[s].pc = "awaitPost"
  /\ accessToken' = TokenAfterExchange(accessToken, res)
  /\ ev' = IF ExchangeThrows(res)
             THEN LET err == IF res.ok THEN "TypeError" ELSE "AxiosError" IN
                  Response(s, reqs[s], FailureStatus(err),
                           FailureBody("/callback", err), res, err)
             ELSE Response(s, reqs[s], 200, Text(SuccessMessage), res, "")
  /\ lastExchange' = IF WellFormed(res) THEN "good" ELSE "other"
  /\ lastGood' = IF WellFormed(res) THEN res.data[2] ELSE lastGood
  /\ reqs' = [reqs EXCEPT ![s] = Finished(reqs[s])]
  /\ UNCHANGED <<env, phase>>

----------------------------------------------------------------------------
\* makeAuthenticatedRequest (lines 71-88)

\* Mutant: accessToken === null
HelperNotAuthenticated_NullOnly(tok) == tok = Null

\* !accessToken (line 72)
HelperNotAuthenticated(tok) == Falsy(tok)

\* `Bearer ${accessToken}` (line 79)
Bearer(tok) == <<"Bearer", TemplateStr(tok)>>

\* The synchronous part of makeAuthenticatedRequest(url): it throws, or it
\* calls axios.get with headers built from the accessToken of this instant.
makeAuthenticatedRequest(tok, url) ==
  IF HelperNotAuthenticated(tok)
    THEN [threw |-> TRUE, err |-> "Not authenticated", url |-> url,
          auth |-> <<>>]
    ELSE [threw |-> FALSE, err |-> "", url |-> url, auth |-> Bearer(tok)]

----------------------------------------------------------------------------
\* Data routes (lines 91-170)

\* Mutant: accessToken === null
RouteNotAuthenticated_NullOnly(tok) == tok = Null

\* !accessToken (lines 92, 108, 124, 151)
RouteNotAuthenticated(tok) == Falsy(tok)

\* Mutant: no default (const week = req.query.week)
WeekOf_NoDefault(q) == q

\* req.query.week || 'current' (line 130)
WeekOf(q) == Or(q, Str("current"))

\* leaguesData.fantasy_content.users[0].user[1].games[0].game[1].leagues[0]
\*   .league[0].league_key (lines 137, 160): a TypeError when the path is
\* broken, otherwise the property (Undefined when the league has none).
ExtractLeagueKey(data) ==
  IF data[1] = "leagues" THEN [threw |-> FALSE, value |-> data[2]]
  ELSE [threw |-> TRUE, value |-> Undefined]

\* Mutant: the route relays the axios response object, not its data
RelayedData_Wrapped(route, data) == <<"response", data>>

\* The data a route relays with res.json (lines 99, 115, 142, 165): that of
\* the call it has just awaited.
RelayedData(route, data) == data

\* axios.get(url, {headers}) as issued by makeAuthenticatedRequest (result h)
\* on behalf of the handler of frame r, as its n-th call
\* (upstream: the result that resumed the handler, NoResult for a first call)
GetEvent(s, r, h, n, upstream) ==
  [kind |-> "GET", slot |-> s, route |-> r.route, q |-> r.q, week |-> r.week,
   tok0 |-> r.tok0, url |-> h.url, auth |-> h.auth, n |-> n,
   upstream |-> upstream]

\* Mutant: a rejected call makes the route drop the token
TokenAfterDataRoute_DroppedOnError(tok, res) == IF res.ok THEN tok ELSE Null

\* accessToken after a segment of a data route or of makeAuthenticatedRequest
\* resumed by res: neither assigns it
TokenAfterDataRoute(tok, res) == tok

\* The handler of a data route up to its first await (401, or first GET)
Data(s, route, q) ==
  /\ phase = "listening"
  /\ Free(s)
  /\ IF RouteNotAuthenticated(accessToken)
       THEN /\ ev' = Response(s, Frame(route, "idle", Undefined, Undefined,
                                       Undefined, accessToken),
                              401, Text(NotAuthenticatedMessage), NoResult, "")
            /\ UNCHANGED reqs
       ELSE LET r == Frame(route, "idle", Undefined, q,
                           IF route = "/nhl-matchups" THEN WeekOf(q)
                           ELSE Undefined,
                           accessToken)
                h == makeAuthenticatedRequest(accessToken, FirstUrl(route)) IN
            IF h.threw
              THEN /\ ev' = Response(s, r, FailureStatus(h.err),
                                     FailureBody(route, h.err), NoResult, h.err)
                   /\ UNCHANGED reqs
              ELSE /\ ev' = GetEvent(s, r, h, 1, NoResult)
                   /\ reqs' = [reqs EXCEPT ![s] = [r EXCEPT !.pc = "await1"]]
  /\ accessToken' = TokenAfterDataRoute(accessToken, NoResult)
  /\ UNCHANGED <<env, phase, lastExchange, lastGood>>

\* The handler of a data route from the settling of an awaited GET to its
\* next await or its response
DataResume(s, res) ==
  /\ reqs[s].pc \in {"await1", "await2"}
  /\ LET r == reqs[s]
         fail(err) == Response(s, r, FailureStatus(err),
                               FailureBody(r.route, err), res, err)
     IN IF ~res.ok
          THEN /\ ev' = fail("AxiosError")
               /\ reqs' = [reqs EXCEPT ![s] = Finished(reqs[s])]
          ELSE IF r.route \in TwoStepRoutes /\ r.pc = "await1"
            THEN LET k == ExtractLeagueKey(res.data) IN
                 IF k.threw
                   THEN /\ ev' = fail("TypeError")
                        /\ reqs' = [reqs EXCEPT ![s] = Finished(reqs[s])]
                   ELSE LET h == makeAuthenticatedRequest(accessToken,
                                   SecondUrl(r.route, k.value, r.week)) IN
                        IF h.threw
                          THEN /\ ev' = fail(h.err)
                               /\ reqs' = [reqs EXCEPT ![s] = Finished(reqs[s])]
                          ELSE /\ ev' = GetEvent(s, r, h, 2, res)
                               /\ reqs' = [reqs EXCEPT ![s].pc = "await2"]
            ELSE /\ ev' = Response(s, r, 200, Json(RelayedData(r.route, res.data)),
                                   res, "")
                 /\ reqs' = [reqs EXCEPT ![s] = Finished(r)]
  /\ accessToken' = TokenAfterDataRoute(accessToken, res)
  /\ UNCHANGED <<env, phase, lastExchange, lastGood>>

----------------------------------------------------------------------------

Next ==
  \/ Startup
  \/ \E s \in Slots : Auth(s)
  \/ \E s \in Slots, code \in Codes : Callback(s, code)
  \/ \E s \in Slots, res \in PostResults : CallbackResume(s, res)
  \/ \E s \in Slots, route \in DataRoutes :
       \E q \in QueriesOf(route) : Data(s, route, q)
  \/ \E s \in Slots, res \in GetResults : DataResume(s, res)

Spec == Init /\ [][Next]_vars

\* For the progress properties the data carried matters only through the
\* branch it selects, so the environment offers one input per branch:
\* code missing / string; exchange rejected, null body, body without
\* access_token, body with one; GET rejected, league list, other document.
ProgressCodes == {Undefined, Str("abc")}
ProgressPostResults ==
  {r \in PostResults :
     r.err \in {"network", ""}
       /\ r.data \in {Undefined, Null, TokenObj(Undefined), TokenObj(Str("T1"))}}
ProgressGetResults ==
  {r \in GetResults :
     r.err \in {"network", ""}
       /\ r.data \in {Undefined, LeaguesDoc(Str("K1")), OtherDoc}}

\* The settling of the call awaited in request context s resumes its handler
Resume(s) ==
  \/ \E res \in ProgressPostResults : CallbackResume(s, res)
  \/ \E res \in ProgressGetResults : DataResume(s, res)

ProgressNext ==
  \/ Startup
  \/ \E s \in Slots : Auth(s)
  \/ \E s \in Slots, code \in ProgressCodes : Callback(s, code)
  \/ \E s \in Slots, route \in DataRoutes : Data(s, route, Undefined)
  \/ \E s \in Slots : Resume(s)

\* The request context whose outbound calls may hang for ever
HungSlot == CHOOSE s \in Slots : \A u \in Slots : s <= u

\* Every outbound call eventually settles and the event loop then runs the
\* continuation awaiting it (no timeouts are configured: that calls settle is
\* an assumption on the provider and the remote API).
FairSpec ==
  Init /\ [][ProgressNext]_vars /\ \A s \in Slots : WF_vars(Resume(s))

\* The calls of HungSlot may never settle; all others eventually do.
HungSpec ==
  Init /\ [][ProgressNext]_vars
    /\ \A s \in Slots \ {HungSlot} : WF_vars(Resume(s))

----------------------------------------------------------------------------
\* Vocabulary of the properties

IsResponse == ev.kind = "response"
IsDataResponse == IsResponse /\ ev.route \in DataRoutes
\* The response of a /callback request that awaited its token exchange
IsExchangeResponse == IsResponse /\ ev.route = "/callback" /\ ev.calls = 1
IsGet == ev.kind = "GET"
IsPost == ev.kind = "POST"

\* The same, of the event the step being taken puts on the wire
IsExchangeResponseNext ==
  ev'.kind = "response" /\ ev'.route = "/callback" /\ ev'.calls = 1

\* Number of outbound calls a data route makes when nothing goes wrong
NeededCalls(route) == IF route \in TwoStepRoutes THEN 2 ELSE 1

----------------------------------------------------------------------------
\* C1: a data route invoked while the token is absent responds 401 with the
\* fixed message and issues no outbound call: such a request is never
\* suspended and no GET is ever issued on its behalf.
C1_AbsentTokenYields401 ==
  /\ (IsDataResponse /\ Falsy(ev.tok0)) =>
       /\ ev.status = 401
       /\ ev.body = Text("Not authenticated. Please authenticate first.")
       /\ ev.calls = 0
  /\ IsGet => ~Falsy(ev.tok0)
  /\ \A s \in Slots : reqs[s].route \in DataRoutes => ~Falsy(reqs[s].tok0)

\* A data route has just answered 401 after a malformed exchange cleared or
\* never set the token, while another request is suspended.
C1_Witness ==
  /\ IsDataResponse /\ ev.status = 401 /\ ev.route = "/nhl-matchups"
  /\ ev.tok0 = Undefined
  /\ \E s \in Slots : reqs[s].pc # "idle"

\* C2: a /callback whose exchange returns access_token T (a string) responds
\* 200 and leaves accessToken = T; every GET issued while that callback is
\* the most recently completed one carries "Bearer T".
C2_ExchangedTokenIsUsed ==
  /\ (IsExchangeResponse /\ WellFormed(ev.upstream)) =>
       /\ ev.status = 200
       /\ accessToken = ev.upstream.data[2]
  /\ (IsGet /\ lastExchange = "good") => ev.auth = <<"Bearer", lastGood[2]>>

\* The second GET of a two-step route goes out with T2 after an exchange
\* returned T2.
C2_Witness ==
  /\ IsGet /\ ev.n = 2
  /\ lastExchange = "good" /\ lastGood = Str("T2")
  /\ ev.auth = <<"Bearer", "T2">>

\* C3: a /callback whose code is missing or not a string responds 400, issues
\* no POST (every POST carries a string code) and leaves accessToken as it was.
C3_BadCodeYields400 ==
  /\ [][(ev'.kind = "response" /\ ev'.route = "/callback"
           /\ TypeOf(ev'.code) # "string") =>
          /\ ev'.status = 400
          /\ ev'.body = Text("Invalid authorization code")
          /\ ev'.calls = 0
          /\ accessToken' = accessToken
          /\ reqs' = reqs]_vars
  /\ [](IsPost => TypeOf(ev.code) = "string")

\* A repeated code parameter (an array) is answered 400 while a token is held.
C3_Witness ==
  /\ IsResponse /\ ev.route = "/callback" /\ ev.status = 400
  /\ ev.code = Arr
  /\ accessToken = Str("T1")

\* C4: a /callback whose POST is rejected (network error, non-2xx) responds
\* 500 with the generic message after exactly one POST, is finished (no
\* retry), and leaves accessToken as it was.
C4_FailedExchangeYields500 ==
  [][(IsExchangeResponseNext /\ ~ev'.upstream.ok) =>
       /\ ev'.status = 500
       /\ ev'.body = Text("Authentication failed")
       /\ ev'.calls = 1
       /\ reqs'[ev'.slot].pc = "idle"
       /\ accessToken' = accessToken]_vars

\* A non-2xx exchange has just been answered 500 after an earlier failure,
\* with the token of the last good exchange still in place.
C4_Witness ==
  /\ IsExchangeResponse /\ ev.status = 500 /\ ev.upstream.err = "status"
  /\ lastExchange = "other" /\ lastGood = Str("T1")
  /\ accessToken = Str("T1")

\* C5: once accessToken is present it stays present (original statement).
C5_TokenStaysPresent == [][~Falsy(accessToken) => ~Falsy(accessToken')]_vars

\* C6: a 2xx exchange whose body carries no access_token string is answered
\* 500 with the generic message and does not write accessToken (original
\* statement).
C6_MalformedBodyIsFailure ==
  [][(IsExchangeResponseNext /\ ev'.upstream.ok /\ ~WellFormed(ev'.upstream)) =>
       /\ ev'.status = 500
       /\ ev'.body = Text("Authentication failed")
       /\ accessToken' = accessToken]_vars

\* C7: every GET a data route issues carries the accessToken its invocation
\* read (original statement).
C7_RequestUsesOneToken == IsGet => ev.auth = <<"Bearer", TemplateStr(ev.tok0)>>

\* C8: whenever no /callback is in flight, accessToken is the access_token of
\* the last well-formed exchange (absent while there has been none): failed
\* exchanges neither overwrite nor clear it (original statement).
C8_LastGoodExchangeWins ==
  (\A s \in Slots : reqs[s].pc # "awaitPost") =>
    IF lastGood = Null THEN Falsy(accessToken) ELSE accessToken = lastGood

\* C9: a GET is issued only while accessToken is present and carries exactly
\* that value; makeAuthenticatedRequest reached with no token (a two-step
\* route resumed with an extractable league key) issues nothing and the route
\* answers from its catch block with the "Not authenticated" error.
C9_NoGetWithoutToken ==
  /\ IsGet =>
       /\ ~Falsy(accessToken)
       /\ ev.auth = <<"Bearer", TemplateStr(accessToken)>>
  /\ (IsDataResponse /\ ev.route \in TwoStepRoutes /\ ev.calls = 1
        /\ ev.upstream.ok /\ ev.upstream.data[1] = "leagues") =>
       /\ Falsy(accessToken)
       /\ ev.err = "Not authenticated"
       /\ ev.status = 500
  /\ (IsResponse /\ ev.err = "Not authenticated") => Falsy(accessToken)

\* The helper has just refused the second call of /nhl-teams.
C9_Witness ==
  /\ IsDataResponse /\ ev.route = "/nhl-teams"
  /\ ev.err = "Not authenticated" /\ ev.calls = 1
  /\ ~Falsy(ev.tok0)

\* C10 (original statement): a data route invoked with a token present
\* answers 200 with the body of its final call when every call it made
\* succeeded, 500 with its fixed message when one failed, never 401.
C10_Original ==
  (IsDataResponse /\ ~Falsy(ev.tok0)) =>
    /\ ev.status # 401
    /\ (ev.calls >= 1 /\ ev.upstream.ok) =>
         (ev.status = 200 /\ ev.body = Json(ev.upstream.data))
    /\ (ev.calls >= 1 /\ ~ev.upstream.ok) =>
         (ev.status = 500 /\ ev.body = Text(FailureMessage(ev.route)))

\* C10 (amended): a data route invoked with a token present answers 200 with
\* the body of its final call exactly when it has made all of its calls (one,
\* or two for /nhl-matchups and /nhl-teams) and the last one succeeded;
\* otherwise (a call failed, the league key could not be read, or the token
\* was gone at the second call) 500 with its fixed message; never 401.
C10_RelayOrFixed500 ==
  (IsDataResponse /\ ~Falsy(ev.tok0)) =>
    IF ev.calls = NeededCalls(ev.route) /\ ev.upstream.ok
      THEN ev.status = 200 /\ ev.body = Json(ev.upstream.data)
      ELSE /\ ev.status = 500
           /\ ev.body = Text(CASE ev.route = "/test" ->
                                    "Error making authenticated request"
                               [] ev.route = "/nhl-leagues" ->
                                    "Error fetching NHL league information"
                               [] ev.route = "/nhl-matchups" ->
                                    "Error fetching NHL matchup information"
                               [] ev.route = "/nhl-teams" ->
                                    "Error fetching NHL team information")

\* /nhl-matchups has relayed the body of its second call.
C10_Witness ==
  /\ IsDataResponse /\ ev.route = "/nhl-matchups"
  /\ ev.status = 200 /\ ev.calls = 2
  /\ ev.body = Json(OtherDoc)

----------------------------------------------------------------------------
\* C11: accessToken is written only by the /callback handler: a step of
\* /auth, of a data route or of makeAuthenticatedRequest (whatever it puts on
\* the wire: 302, 401, 500, 200 or a GET) leaves it unchanged, and so does
\* every step other than the completion of a token exchange.
C11_OnlyCallbackWritesToken ==
  [][/\ (ev'.kind \in {"response", "GET"} /\ ev'.route \in DataRoutes \cup {"/auth"})
          => accessToken' = accessToken
     /\ accessToken' # accessToken =>
          (ev'.kind = "response" /\ ev'.route = "/callback" /\ ev'.calls = 1)]_vars

\* A data route has answered 500 after its second call was rejected, the
\* token still in place.
C11_Witness ==
  /\ IsDataResponse /\ ev.status = 500 /\ ev.calls = 2
  /\ ~ev.upstream.ok
  /\ accessToken = Str("T1")

\* The fixed text of the failure response of a route with a status
FixedFailureText(route, status) ==
  CASE status = 400 -> "Invalid authorization code"
    [] status = 401 -> "Not authenticated. Please authenticate first."
    [] status = 500 /\ route = "/callback" -> "Authentication failed"
    [] status = 500 /\ route = "/test" -> "Error making authenticated request"
    [] status = 500 /\ route = "/nhl-leagues" ->
         "Error fetching NHL league information"
    [] status = 500 /\ route = "/nhl-matchups" ->
         "Error fetching NHL matchup information"
    [] status = 500 /\ route = "/nhl-teams" ->
         "Error fetching NHL team information"
    [] OTHER -> "?"

\* C12: every 400, 401 and 500 response is a plain text that is a function of
\* the route and the status alone (400 only from /callback, 401 only from the
\* data routes), so two runs that differ in the stored token or in the
\* upstream error get the same failure response.
C12_FailureTextIsFixed ==
  (IsResponse /\ ev.status \in {400, 401, 500}) =>
    /\ ev.body = <<"text", FixedFailureText(ev.route, ev.status)>>
    /\ ev.status = 400 => ev.route = "/callback"
    /\ ev.status = 401 => ev.route \in DataRoutes
    /\ ev.route # "/auth"

\* A data route answers 500 to a non-2xx upstream answer while holding T2.
C12_Witness ==
  /\ IsDataResponse /\ ev.status = 500
  /\ ev.upstream.err = "status" /\ ev.err = "AxiosError"
  /\ ev.tok0 = Str("T2")

\* C13: every /auth request is answered, whatever the token, with a redirect
\* to the authorization endpoint carrying the configured client id, the fixed
\* redirect URI and response_type=code; it issues no outbound call and is
\* never suspended.
C13_AuthRedirects ==
  /\ (IsResponse /\ ev.route = "/auth") =>
       /\ ev.status = 302
       /\ ev.body =
            <<"redirect",
              <<"https://api.login.yahoo.com/oauth2/request_auth",
                "?client_id=", env.clientId[2],
                "&redirect_uri=", <<"https://localhost:", 3000, "/callback">>,
                "&response_type=code">> >>
       /\ ev.calls = 0
  /\ (IsGet \/ IsPost) => ev.route # "/auth"
  /\ \A s \in Slots : reqs[s].route # "/auth"

\* /auth is answered while a token is held and another request is suspended.
C13_Witness ==
  /\ IsResponse /\ ev.route = "/auth"
  /\ accessToken = Str("T1")
  /\ \E s \in Slots : reqs[s].pc # "idle"

\* C14: the scoreboard request of /nhl-matchups carries week=current when
\* the request has no week parameter (or an empty one) and the supplied value
\* otherwise.
C14_WeekDefaultsToCurrent ==
  (IsGet /\ ev.route = "/nhl-matchups" /\ ev.n = 2) =>
    /\ ev.url[3] = "/scoreboard;week="
    /\ ev.url[4] = IF ev.q = Undefined \/ ev.q = Str("") THEN "current"
                   ELSE ev.q[2]

\* A /nhl-matchups request without week has issued its scoreboard request.
C14_Witness ==
  /\ IsGet /\ ev.route = "/nhl-matchups" /\ ev.n = 2
  /\ ev.q = Undefined
  /\ ev.url[4] = "current"

\* C15: when the client id or the client secret is absent (unset or empty)
\* the process exits with a non-zero status instead of listening: it never
\* serves a route and never issues an outbound call.
C15_MissingCredentialsExit ==
  (Falsy(env.clientId) \/ Falsy(env.clientSecret)) =>
    /\ phase \in {"boot", "exited"}
    /\ ev.kind \in {"none", "exit"}
    /\ phase = "exited" <=> ev.kind = "exit"
    /\ ev.kind = "exit" => ev.code # 0
    /\ \A s \in Slots : reqs[s].pc = "idle"
    /\ accessToken = Null

\* The process has exited for want of the client secret alone.
C15_Witness ==
  /\ phase = "exited"
  /\ env.clientId = Str("id1") /\ env.clientSecret = Undefined

\* C16: the league-scoped GET of /nhl-matchups and /nhl-teams is issued only
\* after the league-list GET of the same request succeeded with a body from
\* which the first league key can be read, and is scoped to that key; a
\* request that ends after its first call answers 500 (original statement).
C16_SecondCallNeedsLeagueKey ==
  /\ (IsGet /\ ev.n = 2) =>
       /\ ev.route \in TwoStepRoutes
       /\ ev.upstream.ok
       /\ ev.upstream.data[1] = "leagues"
       /\ ev.upstream.data[2][1] = "string"
       /\ ev.url[2] = ev.upstream.data[2][2]
  /\ (IsDataResponse /\ ev.route \in TwoStepRoutes /\ ev.calls = 1) =>
       ev.status = 500

\* The request in context s is answered by the step just taken
Answered(s) == IsResponse /\ ev.slot = s
\* A handler is suspended in context s
Suspended(s) == reqs[s].pc # "idle"

\* C17: while the handler in HungSlot stays suspended on a call that may
\* never settle, new requests are still accepted (every route can be entered
\* as long as a request context is free) and every other suspended request
\* whose own calls settle is eventually answered.
C17_HungCallStallsOnlyItself ==
  /\ [](( /\ phase = "listening"
          /\ Suspended(HungSlot)
          /\ \E s \in Slots : ~Suspended(s)) =>
         /\ ENABLED (\E s \in Slots : Auth(s))
         /\ ENABLED (\E s \in Slots : Callback(s, Str("abc")))
         /\ \A route \in DataRoutes :
              ENABLED (\E s \in Slots : Data(s, route, Undefined)))
  /\ \A s \in Slots \ {HungSlot} :
       (Suspended(HungSlot) /\ Suspended(s)) ~> Answered(s)

\* Another request has been answered after its two calls while the first
\* one is still suspended.
C17_Witness ==
  /\ Suspended(HungSlot)
  /\ \E s \in Slots \ {HungSlot} : Answered(s) /\ ev.calls = 2

\* C18: every request is answered exactly once: a suspended handler whose
\* calls settle is eventually answered, and the step that answers a request
\* ends its handler, which can therefore send nothing more.
C18_ExactlyOneResponse ==
  /\ \A s \in Slots : Suspended(s) ~> Answered(s)
  /\ [][ev'.kind = "response" => reqs'[ev'.slot].pc = "idle"]_vars

\* A /callback has been answered after its exchange while a data route is
\* still awaiting its second call.
C18_Witness ==
  /\ IsExchangeResponse
  /\ \E s \in Slots : reqs[s].pc = "await2"

\* C19: a data route answers 401 only to a request that found the token
\* absent on entry and has issued no outbound call; a request that passed the
\* check and whose later call finds no token answers 500.
C19_Only401AtEntry ==
  /\ (IsDataResponse /\ ev.status = 401) =>
       /\ Falsy(ev.tok0)
       /\ ev.calls = 0
       /\ ev.upstream = NoResult
  /\ (IsDataResponse /\ ev.err = "Not authenticated") =>
       /\ ~Falsy(ev.tok0)
       /\ ev.status = 500

\* /nhl-matchups, entered with T2, found the token gone at its second call.
C19_Witness ==
  /\ IsDataResponse /\ ev.route = "/nhl-matchups"
  /\ ev.tok0 = Str("T2") /\ ev.calls = 1
  /\ ev.err = "Not authenticated" /\ ev.status = 500

====
